---- MODULE Spec2Model ----
(***************************************************************************)
(* Task delegation workflow and realtime chat bridge of the task/project   *)
(* management backend (routes/tasks.js, routes/users.js, routes/teams.js,  *)
(* routes/projects.js, routes/chat.js, socket/handlers.js,                 *)
(* middleware/auth.js).                                                    *)
(*                                                                         *)
(* The document store is modelled by the variables users, teams, projects, *)
(* tasks and messages; every REST handler is one action that reads the     *)
(* store, writes it and records the HTTP response it sends in `last`;      *)
(* every socket handler is one action that records the events it emits in  *)
(* `emitted`.                                                              *)
(***************************************************************************)
EXTENDS Integers, Sequences, FiniteSets, TLC

(* ---------------------------------------------------------------------- *)
(* Bounds                                                                  *)
(* ---------------------------------------------------------------------- *)
MaxTasks == 1        \* tasks ever created
MaxRequests == 2     \* delegation requests ever created (all tasks)
MaxMessages == 1     \* chat messages ever sent
MaxComments == 1     \* comments ever added to one task

(* ---------------------------------------------------------------------- *)
(* The fixed population the handlers are exercised with                    *)
(* ---------------------------------------------------------------------- *)
UserIds == {"admin1", "ann", "bob", "cy", "zed"}

\* the users of the store: the company users and the platform administrator
Accounts == UserIds \cup {"root"}

MemberRoles == {"employee", "team_leader", "bug_fixer"}

ProjectIds == {"p1", "p2"}

\* the project ids a client sends: the stored ones and a well-formed id of
\* no stored project
ProjectInputs == ProjectIds \cup {"p0"}

TeamIds == {"t1", "t2"}

\* the projects tasks are created in
TaskProjects == {"p1"}

TaskIds == 1..MaxTasks

\* the task ids a client sends, one of them the id of no stored task
TaskInputs == 1..(MaxTasks + 1)

RequestIds == 1..MaxRequests

\* inputs the handlers are called with
StatusValues == {"completed"}

AssigneeInputs == {"ann", "admin1"}

ManagedUsers == {"cy"}

Actions == {"accept", "reject"}

VARIABLES users, projects, tasks, nextRequestId, last, suspended,
          teams, sockets, messages, emitted

\* the Team collection, the realtime connections, the ChatMessage collection
\* and the events the last socket handler emitted
chatVars == <<teams, sockets, messages, emitted>>

vars == <<users, projects, tasks, nextRequestId, last, suspended,
          teams, sockets, messages, emitted>>

(* ---------------------------------------------------------------------- *)
(* Responses                                                               *)
(* ---------------------------------------------------------------------- *)
\* what a handler sends back: the route, the HTTP status, the message and,
\* for the listing, the ids of the requests returned
Response(op, code, message, body) ==
  [op |-> op, code |-> code, message |-> message, body |-> body]

NoResponse == Response("none", 0, "", <<>>)

\* a create-request handler that has passed its checks and awaits
\* task.save(): the caller, the task and the target user it holds
Handler(caller, taskId, toUserId) ==
  [caller |-> caller, taskId |-> taskId, toUserId |-> toUserId]

NoHandler == Handler("", 0, "")

(* ---------------------------------------------------------------------- *)
(* middleware/auth.js                                                      *)
(* ---------------------------------------------------------------------- *)
\* auth: the token resolves to a stored user that is active
Authenticated(caller) ==
  /\ users[caller].exists
  /\ users[caller].isActive

\* authorize(...roles)
Authorized(caller, roles) == users[caller].role \in roles

\* User.findOne({ _id, company, isActive: true })
ActiveUserInCompany(userId, company) ==
  /\ users[userId].exists
  /\ users[userId].company = company
  /\ users[userId].isActive

(* ---------------------------------------------------------------------- *)
(* Initial store: one company with an administrator and three employees    *)
(* who are all members of project p1, and one employee of another company. *)
(* ---------------------------------------------------------------------- *)
\* a user without a company (populate leaves company null)
NoCompany == ""

InitUsers ==
  [u \in Accounts |->
     [exists |-> TRUE,
      isActive |-> TRUE,
      role |-> CASE u = "root" -> "masteradmin"
                 [] u = "admin1" -> "admin"
                 [] OTHER -> "employee",
      company |-> CASE u = "root" -> NoCompany
                    [] u = "zed" -> "c2"
                    [] OTHER -> "c1",
      teams |-> CASE u \in {"bob", "cy"} -> {"t1", "t2"}
                  [] u = "ann" -> {"t1"}
                  [] OTHER -> {}]]

\* chatRoom: `project_${Date.now()}_${random}`, unique per project
ChatRoomId(p) == <<"project_", p>>

InitProjects ==
  [p \in ProjectIds |->
     [company |-> "c1",
      team |-> IF p = "p1" THEN "t1" ELSE "t2",
      members |-> IF p = "p1" THEN {"ann", "bob", "cy"} ELSE {"bob"},
      chatRoom |-> ChatRoomId(p),
      tasks |-> <<>>, isActive |-> TRUE]]

(* ---------------------------------------------------------------------- *)
(* Teams, realtime connections and emitted events                          *)
(* ---------------------------------------------------------------------- *)
\* team t1 owns project p1, team t2 owns project p2; cy reaches p2 through
\* team t2 only, ann does not reach p2 at all
InitTeams ==
  [t \in TeamIds |->
     [company |-> "c1",
      leader |-> IF t = "t1" THEN "ann" ELSE "bob",
      members |-> IF t = "t1" THEN {"ann", "bob", "cy"} ELSE {"bob", "cy"},
      isActive |-> TRUE]]

ConnIds == {"s1", "s2", "s3", "s4"}

\* the user whose token each connection presents in its handshake
TokenOf ==
  [c \in ConnIds |-> CASE c = "s1" -> "ann"
                       [] c = "s2" -> "cy"
                       [] c = "s3" -> "root"
                       [] OTHER -> "admin1"]

NoRoom == <<>>

NoUser == [id |-> "", role |-> "", company |-> NoCompany, teams |-> {}]

\* a connection: socket.user as resolved by io.use, and the rooms joined
NoSocket == [connected |-> FALSE, user |-> NoUser, rooms |-> {}]

\* one event as a connection receives it; room is the room it was emitted to
\* (NoRoom for an event emitted to one socket)
Event(event, room, payload) ==
  [event |-> event, room |-> room, payload |-> payload]

Nothing == [c \in ConnIds |-> <<>>]

\* what one socket handler emitted: for every connection the events it
\* received, in order
Emit(op, deliveries) == [op |-> op, to |-> deliveries]

NoEvents == Emit("none", Nothing)

Init ==
  /\ users = InitUsers
  /\ projects = InitProjects
  /\ tasks = <<>>
  /\ nextRequestId = 1
  /\ last = NoResponse
  /\ suspended = NoHandler
  /\ teams = InitTeams
  /\ sockets = [c \in ConnIds |-> NoSocket]
  /\ messages = <<>>
  /\ emitted = NoEvents

(* ---------------------------------------------------------------------- *)
(* Sequence helpers                                                        *)
(* ---------------------------------------------------------------------- *)
\* $pull: { tasks: id }
Pull(seq, id) == SelectSeq(seq, LAMBDA x : x # id)

Min(S) == CHOOSE x \in S : \A y \in S : x <= y

(* ---------------------------------------------------------------------- *)
(* Store queries of routes/tasks.js                                        *)
(* ---------------------------------------------------------------------- *)
TaskExists(taskId) == taskId \in 1..Len(tasks)

\* Task.findOne({ _id, assignedTo: caller, company: caller.company, isActive })
AssignedTaskFound(caller, taskId) ==
  /\ TaskExists(taskId)
  /\ tasks[taskId].assignedTo = caller
  /\ tasks[taskId].company = users[caller].company
  /\ tasks[taskId].isActive

\* variant: the membership test accepts every user
IsProjectMember_Any(taskId, toUserId) == TRUE

\* task.project.members.some(member => member.toString() === toUserId)
IsProjectMember(taskId, toUserId) ==
  toUserId \in projects[tasks[taskId].project].members

\* variant: the duplicate check finds nothing
ExistingRequestCheck_NoCheck(reqs, caller) == "undefined"

\* A request whose status is pending makes the callback evaluate
\* `req.user.id` with `req` bound to that request (the callback's parameter
\* shadows the HTTP request): a request has no `user`, so the read throws a
\* TypeError.  Requests that are not pending short-circuit to false.
ExistingRequestCheck(reqs, caller) ==
  IF \E i \in 1..Len(reqs) : reqs[i].status = "pending"
  THEN "TypeError"
  ELSE "undefined"

\* the request the handler appends
NewDelegationRequest(id, caller, toUserId) ==
  [id |-> id, fromUser |-> caller, toUser |-> toUserId, status |-> "pending"]

\* variant: the request is put in front of the list
PushRequest_Front(reqs, request) == <<request>> \o reqs

\* task.delegationRequests.push(delegationRequest)
PushRequest(reqs, request) == Append(reqs, request)

(* ---------------------------------------------------------------------- *)
(* POST /api/tasks                                                         *)
(* ---------------------------------------------------------------------- *)
NewTask(caller, projectId, assignedTo) ==
  [project |-> projectId, company |-> users[caller].company,
   assignedTo |-> assignedTo, createdBy |-> caller, status |-> "todo",
   title |-> "task", comments |-> <<>>,
   isActive |-> TRUE, delegationRequests |-> <<>>]

CreateTaskOutcome(caller, projectId, assignedTo) ==
  IF ~Authenticated(caller) THEN <<401, "Token is not valid">>
  ELSE IF ~Authorized(caller, {"admin"})
       THEN <<403, "Access denied. Insufficient permissions.">>
  ELSE IF ~(projects[projectId].company = users[caller].company
            /\ projects[projectId].isActive)
       THEN <<404, "Project not found or access denied">>
  ELSE IF assignedTo \notin
            {m \in projects[projectId].members : users[m].exists}
       THEN <<400, "User is not a member of this project">>
  ELSE IF ~ActiveUserInCompany(assignedTo, users[caller].company)
       THEN <<400, "Assigned user not found in your company">>
  ELSE <<201, "Task created successfully">>

CreateTask(caller, projectId, assignedTo) ==
  LET out == CreateTaskOutcome(caller, projectId, assignedTo) IN
  /\ Len(tasks) < MaxTasks
  /\ last' = Response("createTask", out[1], out[2], <<>>)
  /\ IF out[1] = 201
     THEN /\ tasks' = Append(tasks, NewTask(caller, projectId, assignedTo))
          /\ projects' = [projects EXCEPT ![projectId].tasks =
                            Append(@, Len(tasks) + 1)]
     ELSE UNCHANGED <<tasks, projects>>
  /\ UNCHANGED <<users, nextRequestId, suspended>>
  /\ UNCHANGED chatVars

(* ---------------------------------------------------------------------- *)
(* POST /api/tasks/:id/delegate                                            *)
(* ---------------------------------------------------------------------- *)
DelegateOutcome(caller, taskId, toUserId) ==
  IF ~Authenticated(caller) THEN <<401, "Token is not valid">>
  ELSE IF ~AssignedTaskFound(caller, taskId)
       THEN <<404, "Task not found or you are not assigned to it">>
  ELSE IF ~IsProjectMember(taskId, toUserId)
       THEN <<400, "Target user is not a member of this project">>
  ELSE IF ~ActiveUserInCompany(toUserId, users[caller].company)
       THEN <<400, "Target user not found in your company">>
  ELSE IF ExistingRequestCheck(tasks[taskId].delegationRequests, caller)
            = "TypeError"
       THEN <<500, "Server error while creating delegation request">>
  ELSE IF ExistingRequestCheck(tasks[taskId].delegationRequests, caller)
            = "found"
       THEN <<400, "You already have a pending delegation request for this task">>
  ELSE <<200, "Delegation request sent successfully">>

DelegateTask(caller, taskId, toUserId) ==
  LET out == DelegateOutcome(caller, taskId, toUserId) IN
  /\ out[1] = 200 => nextRequestId <= MaxRequests
  /\ last' = Response("delegate", out[1], out[2], <<>>)
  /\ IF out[1] = 200
     THEN /\ tasks' = [tasks EXCEPT ![taskId].delegationRequests =
                  PushRequest(@, NewDelegationRequest(nextRequestId, caller,
                                                      toUserId))]
          /\ nextRequestId' = nextRequestId + 1
     ELSE UNCHANGED <<tasks, nextRequestId>>
  /\ UNCHANGED <<users, projects, suspended>>
  /\ UNCHANGED chatVars

(* ---------------------------------------------------------------------- *)
(* GET /api/tasks/delegation-requests                                      *)
(* ---------------------------------------------------------------------- *)
\* Task.find({ 'delegationRequests.toUser': caller, company, isActive })
TasksAddressedTo(caller) ==
  {t \in 1..Len(tasks) :
     /\ \E i \in 1..Len(tasks[t].delegationRequests) :
          tasks[t].delegationRequests[i].toUser = caller
     /\ tasks[t].company = users[caller].company
     /\ tasks[t].isActive}

\* populate('delegationRequests.toUser'): a reference to a user that is no
\* longer stored is populated as null
PopulatedToUserIsNull(request) == ~users[request.toUser].exists

\* request.toUser._id.toString() === req.user.id && request.status === 'pending'
ListFilter(request, caller) ==
  /\ request.toUser = caller
  /\ request.status = "pending"

RECURSIVE CollectRequests(_, _, _)
\* task.delegationRequests.forEach(...) from position i on: the ids pushed
CollectRequests(reqs, i, caller) ==
  IF i > Len(reqs) THEN <<>>
  ELSE (IF ListFilter(reqs[i], caller) THEN <<reqs[i].id>> ELSE <<>>)
       \o CollectRequests(reqs, i + 1, caller)

RECURSIVE CollectTasks(_, _)
\* tasks.forEach(...) from task t on
CollectTasks(t, caller) ==
  IF t > Len(tasks) THEN <<>>
  ELSE (IF t \in TasksAddressedTo(caller)
        THEN CollectRequests(tasks[t].delegationRequests, 1, caller)
        ELSE <<>>)
       \o CollectTasks(t + 1, caller)

\* reading `_id` of a null toUser throws inside the loop
ListThrows(caller) ==
  \E t \in TasksAddressedTo(caller) :
    \E i \in 1..Len(tasks[t].delegationRequests) :
      PopulatedToUserIsNull(tasks[t].delegationRequests[i])

GetDelegationRequests(caller) ==
  /\ last' =
       IF ~Authenticated(caller)
       THEN Response("list", 401, "Token is not valid", <<>>)
       ELSE IF ListThrows(caller)
       THEN Response("list", 500,
                     "Server error while fetching delegation requests", <<>>)
       ELSE Response("list", 200, "", CollectTasks(1, caller))
  /\ UNCHANGED <<users, projects, tasks, nextRequestId, suspended>>
  /\ UNCHANGED chatVars

(* ---------------------------------------------------------------------- *)
(* PUT /api/tasks/delegation-requests/:requestId                           *)
(* ---------------------------------------------------------------------- *)
HasRequestId(reqs, requestId) ==
  \E i \in 1..Len(reqs) : reqs[i].id = requestId

HasRequestTo(reqs, caller) ==
  \E i \in 1..Len(reqs) : reqs[i].toUser = caller

\* Task.findOne({ 'delegationRequests._id': requestId,
\*                'delegationRequests.toUser': caller, company, isActive }):
\* each array condition is met by any element of the array
TaskQueryMatches(t, caller, requestId) ==
  /\ HasRequestId(tasks[t].delegationRequests, requestId)
  /\ HasRequestTo(tasks[t].delegationRequests, caller)
  /\ tasks[t].company = users[caller].company
  /\ tasks[t].isActive

FindTaskOfRequest(caller, requestId) ==
  LET found == {t \in 1..Len(tasks) : TaskQueryMatches(t, caller, requestId)}
  IN IF found = {} THEN 0 ELSE Min(found)

\* task.delegationRequests.id(requestId): the position of the request
RequestIndex(reqs, requestId) ==
  IF HasRequestId(reqs, requestId)
  THEN Min({i \in 1..Len(reqs) : reqs[i].id = requestId})
  ELSE 0

\* request.status = action === 'accept' ? 'accepted' : 'rejected'
ResolvedStatus(action) == IF action = "accept" THEN "accepted" ELSE "rejected"

\* variant: the task is reassigned whatever the action
ResolvedAssignee_Always(task, caller, action) == caller

\* if (action === 'accept') task.assignedTo = req.user.id
ResolvedAssignee(task, caller, action) ==
  IF action = "accept" THEN caller ELSE task.assignedTo

\* variant: the new status is written to every request of the task
ApplyResolution_AllRequests(task, i, caller, action) ==
  [task EXCEPT !.delegationRequests =
                 [k \in 1..Len(@) |-> [@[k] EXCEPT !.status = ResolvedStatus(action)]],
               !.assignedTo = ResolvedAssignee(task, caller, action)]

\* variant: a processed request is resolved again
AlreadyProcessed_Never(request) == FALSE

\* request.status !== 'pending'
AlreadyProcessed(request) == request.status # "pending"

\* the task document that task.save() writes
ApplyResolution(task, i, caller, action) ==
  [task EXCEPT !.delegationRequests[i].status = ResolvedStatus(action),
               !.assignedTo = ResolvedAssignee(task, caller, action)]

ResolveOutcome(caller, requestId, action) ==
  LET t == FindTaskOfRequest(caller, requestId) IN
  IF ~Authenticated(caller) THEN <<401, "Token is not valid">>
  ELSE IF t = 0 THEN <<404, "Delegation request not found">>
  ELSE IF RequestIndex(tasks[t].delegationRequests, requestId) = 0
       THEN <<404, "Delegation request not found">>
  ELSE IF AlreadyProcessed(tasks[t].delegationRequests[
                 RequestIndex(tasks[t].delegationRequests, requestId)])
       THEN <<400, "Request has already been processed">>
  ELSE <<200, "Request " \o action \o "ed successfully">>

ResolveDelegationRequest(caller, requestId, action) ==
  LET out == ResolveOutcome(caller, requestId, action)
      t == FindTaskOfRequest(caller, requestId)
  IN
  /\ last' = Response("resolve", out[1], out[2], <<>>)
  /\ IF out[1] = 200
     THEN tasks' = [tasks EXCEPT ![t] =
            ApplyResolution(tasks[t],
                            RequestIndex(tasks[t].delegationRequests, requestId),
                            caller, action)]
     ELSE UNCHANGED tasks
  /\ UNCHANGED <<users, projects, nextRequestId, suspended>>
  /\ UNCHANGED chatVars

(* ---------------------------------------------------------------------- *)
(* PUT /api/tasks/:id/status                                               *)
(* ---------------------------------------------------------------------- *)
\* the query of findOneAndUpdate: members must be the assignee
\* variant: the query does not filter on the assignee
StatusQueryMatches_AnyCaller(caller, taskId) ==
  /\ TaskExists(taskId)
  /\ tasks[taskId].company = users[caller].company
  /\ tasks[taskId].isActive

StatusQueryMatches(caller, taskId) ==
  /\ TaskExists(taskId)
  /\ tasks[taskId].company = users[caller].company
  /\ tasks[taskId].isActive
  /\ users[caller].role \in MemberRoles => tasks[taskId].assignedTo = caller

UpdateTaskStatus(caller, taskId, status) ==
  LET out == IF ~Authenticated(caller) THEN <<401, "Token is not valid">>
             ELSE IF ~StatusQueryMatches(caller, taskId)
                  THEN <<404, "Task not found or access denied">>
             ELSE <<200, "Task status updated successfully">>
  IN
  /\ last' = Response("status", out[1], out[2], <<>>)
  /\ IF out[1] = 200
     THEN tasks' = [tasks EXCEPT ![taskId].status = status]
     ELSE UNCHANGED tasks
  /\ UNCHANGED <<users, projects, nextRequestId, suspended>>
  /\ UNCHANGED chatVars

(* ---------------------------------------------------------------------- *)
(* DELETE /api/tasks/:id                                                   *)
(* ---------------------------------------------------------------------- *)
DeleteQueryMatches(caller, taskId) ==
  /\ TaskExists(taskId)
  /\ tasks[taskId].company = users[caller].company
  /\ tasks[taskId].isActive

DeleteTask(caller, taskId) ==
  LET out == IF ~Authenticated(caller) THEN <<401, "Token is not valid">>
             ELSE IF ~Authorized(caller, {"admin"})
                  THEN <<403, "Access denied. Insufficient permissions.">>
             ELSE IF ~DeleteQueryMatches(caller, taskId)
                  THEN <<404, "Task not found">>
             ELSE <<200, "Task deleted successfully">>
  IN
  /\ last' = Response("deleteTask", out[1], out[2], <<>>)
  /\ IF out[1] = 200
     THEN /\ tasks' = [tasks EXCEPT ![taskId].isActive = FALSE]
          /\ projects' = [projects EXCEPT ![tasks[taskId].project].tasks =
                            Pull(@, taskId)]
     ELSE UNCHANGED <<tasks, projects>>
  /\ UNCHANGED <<users, nextRequestId, suspended>>
  /\ UNCHANGED chatVars

(* ---------------------------------------------------------------------- *)
(* routes/users.js: PUT /api/users/members/:id/status and                  *)
(* DELETE /api/users/members/:id                                           *)
(* ---------------------------------------------------------------------- *)
\* { _id, company: caller.company, role: { $in: member roles } }
MemberQueryMatches(caller, userId) ==
  /\ users[userId].exists
  /\ users[userId].company = users[caller].company
  /\ users[userId].role \in MemberRoles

MemberOutcome(caller, userId, okMessage) ==
  IF ~Authenticated(caller) THEN <<401, "Token is not valid">>
  ELSE IF ~Authorized(caller, {"admin"})
       THEN <<403, "Access denied. Insufficient permissions.">>
  ELSE IF ~MemberQueryMatches(caller, userId)
       THEN <<404, "Member not found">>
  ELSE <<200, okMessage>>

UpdateMemberStatus(caller, userId, isActive) ==
  LET out == MemberOutcome(caller, userId,
               IF isActive THEN "Member activated successfully"
               ELSE "Member deactivated successfully")
  IN
  /\ last' = Response("memberStatus", out[1], out[2], <<>>)
  /\ IF out[1] = 200
     THEN users' = [users EXCEPT ![userId].isActive = isActive]
     ELSE UNCHANGED users
  /\ UNCHANGED <<projects, tasks, nextRequestId, suspended>>
  /\ emitted' = NoEvents
  /\ UNCHANGED <<teams, sockets, messages>>

\* findOneAndDelete: the user document is removed; references to the user
\* in projects and tasks stay behind
DeleteMember(caller, userId) ==
  LET out == MemberOutcome(caller, userId, "Member deleted successfully") IN
  /\ last' = Response("deleteMember", out[1], out[2], <<>>)
  /\ IF out[1] = 200
     THEN users' = [users EXCEPT ![userId].exists = FALSE,
                                 ![userId].isActive = FALSE]
     ELSE UNCHANGED users
  /\ UNCHANGED <<projects, tasks, nextRequestId, suspended>>
  /\ emitted' = NoEvents
  /\ UNCHANGED <<teams, sockets, messages>>

(* ---------------------------------------------------------------------- *)
(* Specification: handlers run one at a time, each to completion           *)
(* ---------------------------------------------------------------------- *)
Next ==
  \/ \E caller \in UserIds, p \in TaskProjects, u \in AssigneeInputs :
       CreateTask(caller, p, u)
  \/ \E caller \in UserIds, t \in TaskIds, u \in UserIds :
       DelegateTask(caller, t, u)
  \/ \E caller \in UserIds : GetDelegationRequests(caller)
  \/ \E caller \in UserIds, r \in RequestIds, a \in Actions :
       ResolveDelegationRequest(caller, r, a)
  \/ \E caller \in UserIds, t \in TaskIds, s \in StatusValues :
       UpdateTaskStatus(caller, t, s)
  \/ \E caller \in UserIds, t \in TaskIds : DeleteTask(caller, t)
  \/ \E caller \in UserIds, u \in ManagedUsers, b \in BOOLEAN :
       UpdateMemberStatus(caller, u, b)
  \/ \E caller \in UserIds, u \in ManagedUsers : DeleteMember(caller, u)

Spec == Init /\ [][Next]_vars

(* ---------------------------------------------------------------------- *)
(* Specification with one create-request handler interleaved: the handler *)
(* runs its reads and checks, is suspended at `await task.save()` while    *)
(* other handlers run, and then saves.                                     *)
(* ---------------------------------------------------------------------- *)
\* the reads and checks of the handler, up to the await of task.save()
DelegateSuspend(caller, taskId, toUserId) ==
  /\ suspended = NoHandler
  /\ DelegateOutcome(caller, taskId, toUserId)[1] = 200
  /\ suspended' = Handler(caller, taskId, toUserId)
  /\ UNCHANGED <<users, projects, tasks, nextRequestId, last>>
  /\ UNCHANGED chatVars

\* variant: the save is refused when the task holds a pending request
DelegateResume_Rechecks ==
  /\ suspended # NoHandler
  /\ last' = Response("delegate", 400,
                      "You already have a pending delegation request for this task",
                      <<>>)
  /\ suspended' = NoHandler
  /\ UNCHANGED <<users, projects, tasks, nextRequestId>>
  /\ UNCHANGED chatVars

\* task.save() sends the push of the new request, which the store applies
\* to the list as it is now, and the handler answers
DelegateResume ==
  /\ suspended # NoHandler
  /\ nextRequestId <= MaxRequests
  /\ tasks' = [tasks EXCEPT ![suspended.taskId].delegationRequests =
               PushRequest(@, NewDelegationRequest(nextRequestId,
                                suspended.caller, suspended.toUserId))]
  /\ nextRequestId' = nextRequestId + 1
  /\ last' = Response("delegate", 200,
                      "Delegation request sent successfully", <<>>)
  /\ suspended' = NoHandler
  /\ UNCHANGED <<users, projects>>
  /\ UNCHANGED chatVars

NextRace ==
  \/ \E caller \in UserIds, p \in TaskProjects, u \in AssigneeInputs :
       CreateTask(caller, p, u)
  \/ \E caller \in UserIds, t \in TaskIds, u \in UserIds :
       DelegateTask(caller, t, u)
  \/ \E caller \in UserIds, t \in TaskIds, u \in UserIds :
       DelegateSuspend(caller, t, u)
  \/ DelegateResume
  \/ \E caller \in UserIds, r \in RequestIds, a \in Actions :
       ResolveDelegationRequest(caller, r, a)
  \/ \E caller \in UserIds, t \in TaskIds, s \in StatusValues :
       UpdateTaskStatus(caller, t, s)

SpecRace == Init /\ [][NextRace]_vars

(* ---------------------------------------------------------------------- *)
(* routes/projects.js: GET /api/projects/:id                               *)
(* ---------------------------------------------------------------------- *)
\* { _id, company: caller.company, isActive: true } and, for member roles,
\* $or [{ members: caller }, { team: { $in: caller.teams } }]
ProjectQueryMatches(caller, projectId) ==
  /\ projectId \in DOMAIN projects
  /\ projects[projectId].company = users[caller].company
  /\ projects[projectId].isActive
  /\ users[caller].role \in MemberRoles
       => \/ caller \in projects[projectId].members
          \/ projects[projectId].team \in users[caller].teams

GetProjectOutcome(caller, projectId) ==
  IF ~Authenticated(caller) THEN <<401, "Token is not valid">>
  ELSE IF users[caller].company = NoCompany
       THEN <<400, "User not associated with any company">>
  ELSE IF ~ProjectQueryMatches(caller, projectId)
       THEN <<404, "Project not found or access denied">>
  ELSE <<200, "">>

GetProject(caller, projectId) ==
  LET out == GetProjectOutcome(caller, projectId) IN
  /\ last' = Response("getProject", out[1], out[2], <<>>)
  /\ UNCHANGED <<users, projects, tasks, nextRequestId, suspended>>
  /\ emitted' = NoEvents
  /\ UNCHANGED <<teams, sockets, messages>>

(* ---------------------------------------------------------------------- *)
(* routes/chat.js: GET /api/chat/:projectId                                *)
(* ---------------------------------------------------------------------- *)
\* Project.findOne({ _id: projectId, company: req.user.company._id })
ChatProjectFound(caller, projectId) ==
  projects[projectId].company = users[caller].company

\* ChatMessage.find({ project: projectId }).sort({ createdAt: 1 }): the ids
\* of the project's messages, oldest first
RECURSIVE MessagesOf(_, _)
MessagesOf(n, projectId) ==
  IF n = 0 THEN <<>>
  ELSE IF messages[n].project = projectId
       THEN Append(MessagesOf(n - 1, projectId), messages[n].id)
       ELSE MessagesOf(n - 1, projectId)

GetChatOutcome(caller, projectId) ==
  IF ~Authenticated(caller) THEN <<401, "Token is not valid">>
  ELSE IF users[caller].company = NoCompany THEN <<500, "Server error">>
  ELSE IF ~ChatProjectFound(caller, projectId)
       THEN <<404, "Project not found">>
  ELSE <<200, "">>

GetChatMessages(caller, projectId) ==
  LET out == GetChatOutcome(caller, projectId) IN
  /\ last' = Response("getChat", out[1], out[2],
                IF out[1] = 200 THEN MessagesOf(Len(messages), projectId)
                ELSE <<>>)
  /\ UNCHANGED <<users, projects, tasks, nextRequestId, suspended>>
  /\ emitted' = NoEvents
  /\ UNCHANGED <<teams, sockets, messages>>

(* ---------------------------------------------------------------------- *)
(* routes/teams.js: PUT /api/teams/:id with a members list                 *)
(* ---------------------------------------------------------------------- *)
\* User.find({ _id: { $in }, company, role: member roles, isActive: true })
TeamUsersValid(caller, userIds) ==
  \A u \in userIds :
    /\ users[u].exists
    /\ users[u].company = users[caller].company
    /\ users[u].role \in MemberRoles
    /\ users[u].isActive

UpdateTeamOutcome(caller, teamId, members) ==
  IF ~Authenticated(caller) THEN <<401, "Token is not valid">>
  ELSE IF ~Authorized(caller, {"admin"})
       THEN <<403, "Access denied. Insufficient permissions.">>
  ELSE IF ~(teams[teamId].company = users[caller].company
            /\ teams[teamId].isActive)
       THEN <<404, "Team not found">>
  ELSE IF ~TeamUsersValid(caller, {teams[teamId].leader} \cup members)
       THEN <<400, "Some users do not belong to your company or are not active">>
  ELSE <<200, "Team updated successfully">>

\* $pull / $addToSet of the team on the users leaving and entering it;
\* updateMany skips users whose document is gone
UpdateUserTeams(teamId, members) ==
  LET allUserIds == {teams[teamId].leader} \cup members
      oldAllUsers == {teams[teamId].leader} \cup teams[teamId].members
      usersToRemove == oldAllUsers \ allUserIds
      usersToAdd == allUserIds \ oldAllUsers
  IN [u \in DOMAIN users |->
        IF ~users[u].exists THEN users[u]
        ELSE IF u \in usersToRemove
             THEN [users[u] EXCEPT !.teams = @ \ {teamId}]
        ELSE IF u \in usersToAdd
             THEN [users[u] EXCEPT !.teams = @ \cup {teamId}]
        ELSE users[u]]

UpdateTeam(caller, teamId, members) ==
  LET out == UpdateTeamOutcome(caller, teamId, members) IN
  /\ last' = Response("updateTeam", out[1], out[2], <<>>)
  /\ IF out[1] = 200
     THEN /\ users' = UpdateUserTeams(teamId, members)
          /\ teams' = [teams EXCEPT ![teamId].members = members]
     ELSE UNCHANGED <<users, teams>>
  /\ UNCHANGED <<projects, tasks, nextRequestId, suspended>>
  /\ emitted' = NoEvents
  /\ UNCHANGED <<sockets, messages>>

(* ---------------------------------------------------------------------- *)
(* socket/handlers.js                                                      *)
(* ---------------------------------------------------------------------- *)
\* `project-${projectId}`
PrimaryRoom(projectId) == <<"project-", projectId>>

\* socket.emit(event, payload)
OnlyTo(c, ev) == [d \in ConnIds |-> IF d = c THEN <<ev>> ELSE <<>>]

\* io.to(room).emit(event, payload)
ToRoom(room, event, payload) ==
  [d \in ConnIds |->
     IF room \in sockets[d].rooms THEN <<Event(event, room, payload)>>
     ELSE <<>>]

\* variant: the sender is not excluded
ToRoomExcept_Nobody(c, room, event, payload) == ToRoom(room, event, payload)

\* socket.to(room).emit(event, payload): the room without the sender
ToRoomExcept(c, room, event, payload) ==
  [d \in ConnIds |->
     IF d # c /\ room \in sockets[d].rooms
     THEN <<Event(event, room, payload)>>
     ELSE <<>>]

\* two emits of one handler, in order
Then(first, second) == [d \in ConnIds |-> first[d] \o second[d]]

\* io.use: User.findById(decoded.id).populate('company teams'), kept on the
\* socket for the life of the connection
SocketUser(u) ==
  [id |-> u, role |-> users[u].role, company |-> users[u].company,
   teams |-> users[u].teams]

Connect(c) ==
  /\ ~sockets[c].connected
  /\ IF Authenticated(TokenOf[c])
     THEN /\ sockets' = [sockets EXCEPT ![c] =
                 [connected |-> TRUE, user |-> SocketUser(TokenOf[c]),
                  rooms |-> {}]]
          /\ emitted' = Emit("connection", Nothing)
     ELSE /\ UNCHANGED sockets
          /\ emitted' = Emit("connection",
                 OnlyTo(c, Event("connect_error", NoRoom,
                                 "Authentication error")))
  /\ last' = NoResponse
  /\ UNCHANGED <<users, projects, tasks, nextRequestId, suspended>>
  /\ UNCHANGED <<teams, messages>>

\* { _id: projectId, company: socket.user.company._id } and, for member
\* roles, $or [{ members: socket.user._id }, { team: { $in: socket.user.teams } }]
SocketProjectFound(user, projectId) ==
  /\ projectId \in DOMAIN projects
  /\ projects[projectId].company = user.company
  /\ user.role \in MemberRoles
       => \/ user.id \in projects[projectId].members
          \/ projects[projectId].team \in user.teams

\* variant: a stored project the user cannot reach is reported as such
JoinOutcome_AccessDenied(c, projectId) ==
  IF sockets[c].user.company = NoCompany THEN "Error joining project"
  ELSE IF projectId \in DOMAIN projects
          /\ ~SocketProjectFound(sockets[c].user, projectId)
       THEN "Access denied"
  ELSE IF ~SocketProjectFound(sockets[c].user, projectId)
       THEN "Project not found"
  ELSE "joined"

JoinOutcome(c, projectId) ==
  IF sockets[c].user.company = NoCompany THEN "Error joining project"
  ELSE IF ~SocketProjectFound(sockets[c].user, projectId)
       THEN "Project not found"
  ELSE "joined"

\* socket.join(`project-${projectId}`); socket.join(project.chatRoom)
JoinedRooms(projectId) ==
  {PrimaryRoom(projectId)}
    \cup (IF projects[projectId].chatRoom # NoRoom
          THEN {projects[projectId].chatRoom} ELSE {})

JoinProject(c, projectId) ==
  LET out == JoinOutcome(c, projectId) IN
  /\ sockets[c].connected
  /\ IF out = "joined"
     THEN /\ sockets' = [sockets EXCEPT ![c].rooms =
                           @ \cup JoinedRooms(projectId)]
          /\ emitted' = Emit("join-project", Nothing)
     ELSE /\ UNCHANGED sockets
          /\ emitted' = Emit("join-project",
                             OnlyTo(c, Event("error", NoRoom, out)))
  /\ last' = NoResponse
  /\ UNCHANGED <<users, projects, tasks, nextRequestId, suspended>>
  /\ UNCHANGED <<teams, messages>>

\* JavaScript truthiness of an optional string field; "" stands for a field
\* that is absent or empty
Truthy(v) == v # ""

\* messageData as the handler builds it
MessageData(user, data) ==
  [project |-> data.projectId,
   sender |-> user.id,
   messageType |-> IF Truthy(data.messageType) THEN data.messageType
                   ELSE "text",
   task |-> data.taskId,
   content |-> data.content,
   file |-> data.file,
   code |-> data.code]

MessageTypes == {"text", "file", "code"}

\* `this.file` / `this.code` inside the schema's required function: file
\* and code are nested paths of the schema, and the document getter of a
\* nested path returns an object whether or not the path was set
NestedPathTruthy(value) == TRUE

\* content.required: !this.file && !this.code
ContentRequired(doc) ==
  /\ ~NestedPathTruthy(doc.file)
  /\ ~NestedPathTruthy(doc.code)

\* variant: every document validates
ValidationPasses_Always(doc) == TRUE

\* ChatMessage.create validates the document: messageType enum, content
\* required when the required function says so
ValidationPasses(doc) ==
  /\ doc.messageType \in MessageTypes
  /\ ContentRequired(doc) => Truthy(doc.content)

SendOutcome(c, data) ==
  IF sockets[c].user.company = NoCompany THEN "Error sending message"
  ELSE IF ~SocketProjectFound(sockets[c].user, data.projectId)
       THEN "Project not found"
  ELSE IF ~ValidationPasses(MessageData(sockets[c].user, data))
       THEN "Error sending message"
  ELSE "sent"

\* variant: the message goes to the named chat room only
Broadcast_ChatRoomOnly(data, message) ==
  IF data.chatRoom # NoRoom
  THEN ToRoom(data.chatRoom, "new-message", message)
  ELSE Nothing

\* io.to(`project-${projectId}`).emit(...); if (chatRoom) io.to(chatRoom).emit(...)
Broadcast(data, message) ==
  Then(ToRoom(PrimaryRoom(data.projectId), "new-message", message),
       IF data.chatRoom # NoRoom
       THEN ToRoom(data.chatRoom, "new-message", message)
       ELSE Nothing)

\* ChatMessage.create(messageData)
StoredMessage(id, doc) ==
  [id |-> id, project |-> doc.project, sender |-> doc.sender,
   messageType |-> doc.messageType, task |-> doc.task,
   content |-> doc.content, file |-> doc.file, code |-> doc.code]

SendMessage(c, data) ==
  LET out == SendOutcome(c, data)
      message == StoredMessage(Len(messages) + 1,
                               MessageData(sockets[c].user, data))
  IN
  /\ sockets[c].connected
  /\ Len(messages) < MaxMessages
  /\ IF out = "sent"
     THEN /\ messages' = Append(messages, message)
          /\ emitted' = Emit("send-message", Broadcast(data, message))
     ELSE /\ UNCHANGED messages
          /\ emitted' = Emit("send-message",
                             OnlyTo(c, Event("error", NoRoom, out)))
  /\ last' = NoResponse
  /\ UNCHANGED <<users, projects, tasks, nextRequestId, suspended>>
  /\ UNCHANGED <<teams, sockets>>

\* { userId, taskId } of user-typing / user-stop-typing
TypingPayload(user, taskId) == [userId |-> user.id, taskId |-> taskId]

Typing(c, projectId, taskId) ==
  /\ sockets[c].connected
  /\ emitted' = Emit("typing",
       ToRoomExcept(c, PrimaryRoom(projectId), "user-typing",
                    TypingPayload(sockets[c].user, taskId)))
  /\ last' = NoResponse
  /\ UNCHANGED <<users, projects, tasks, nextRequestId, suspended>>
  /\ UNCHANGED <<teams, sockets, messages>>

StopTyping(c, projectId, taskId) ==
  /\ sockets[c].connected
  /\ emitted' = Emit("stop-typing",
       ToRoomExcept(c, PrimaryRoom(projectId), "user-stop-typing",
                    TypingPayload(sockets[c].user, taskId)))
  /\ last' = NoResponse
  /\ UNCHANGED <<users, projects, tasks, nextRequestId, suspended>>
  /\ UNCHANGED <<teams, sockets, messages>>

(* ---------------------------------------------------------------------- *)
(* Specification of the chat bridge: socket events and the REST calls that *)
(* read projects and messages or change users and teams, one at a time     *)
(* ---------------------------------------------------------------------- *)
\* the payload fields a client sends with send-message
PayloadInputs ==
  { [content |-> "", file |-> "", code |-> ""],
    [content |-> "hello", file |-> "", code |-> ""],
    [content |-> "", file |-> "a.png", code |-> ""],
    [content |-> "hello", file |-> "", code |-> "x = 1"] }

RoomInputs == {NoRoom} \cup {ChatRoomId(p) : p \in ProjectIds}

MessageTypeInputs == {"", "poll"}

TaskIdInputs == {"", "k1"}

SendInputs ==
  { [projectId |-> p, chatRoom |-> r, taskId |-> "",
     content |-> pl.content, messageType |-> mt,
     file |-> pl.file, code |-> pl.code] :
      p \in ProjectIds, r \in RoomInputs, pl \in PayloadInputs,
      mt \in MessageTypeInputs }

\* the connections of the two employees
ChatConns == {"s1", "s2"}

ChatCallers == {"ann", "cy"}

AdminCallers == {"admin1"}

TeamInputs == {"t2"}

TeamMemberInputs == {{"bob"}, {"bob", "cy"}}

NextChat ==
  \/ \E c \in ChatConns : Connect(c)
  \/ \E c \in ChatConns, p \in ProjectIds : JoinProject(c, p)
  \/ \E c \in ChatConns, data \in SendInputs : SendMessage(c, data)
  \/ \E c \in ChatConns, p \in ProjectIds, k \in TaskIdInputs : Typing(c, p, k)
  \/ \E c \in ChatConns, p \in ProjectIds, k \in TaskIdInputs :
       StopTyping(c, p, k)
  \/ \E caller \in ChatCallers, p \in ProjectIds : GetProject(caller, p)
  \/ \E caller \in ChatCallers, p \in ProjectIds :
       GetChatMessages(caller, p)
  \/ \E caller \in AdminCallers, t \in TeamInputs, m \in TeamMemberInputs :
       UpdateTeam(caller, t, m)
  \/ \E caller \in AdminCallers, u \in ManagedUsers, b \in BOOLEAN :
       UpdateMemberStatus(caller, u, b)

SpecChat == Init /\ [][NextChat]_vars

(* ---------------------------------------------------------------------- *)
(* Specification of resource scoping: the four operations that look a      *)
(* project or task up for the caller, called by employees, a company       *)
(* administrator and the platform administrator, with ids of stored and    *)
(* of missing resources                                                    *)
(* ---------------------------------------------------------------------- *)
ScopeConns == {"s1", "s3", "s4"}

ScopeSendInputs ==
  { [projectId |-> p, chatRoom |-> NoRoom, taskId |-> "",
     content |-> "hello", messageType |-> "", file |-> "", code |-> ""] :
      p \in ProjectInputs }

\* the users a create-request names: a member of the project and a user of
\* another company
ScopeTargets == {"bob", "zed"}

NextScope ==
  \/ \E c \in ScopeConns : Connect(c)
  \/ \E c \in ScopeConns, p \in ProjectInputs : JoinProject(c, p)
  \/ \E c \in ScopeConns, data \in ScopeSendInputs : SendMessage(c, data)
  \/ \E caller \in UserIds, p \in ProjectInputs : GetProject(caller, p)
  \/ \E caller \in UserIds, p \in TaskProjects, u \in AssigneeInputs :
       CreateTask(caller, p, u)
  \/ \E caller \in UserIds, t \in TaskInputs, u \in ScopeTargets :
       DelegateTask(caller, t, u)
  \/ \E caller \in UserIds, t \in TaskIds : DeleteTask(caller, t)

SpecScope == Init /\ [][NextScope]_vars

(* ---------------------------------------------------------------------- *)
(* routes/tasks.js: the reads, comments and detail update                  *)
(* ---------------------------------------------------------------------- *)
\* the ids in S, in ascending order, as a response body
RECURSIVE IdList(_, _)
IdList(n, S) ==
  IF n = 0 THEN <<>>
  ELSE IF n \in S THEN Append(IdList(n - 1, S), n)
  ELSE IdList(n - 1, S)

\* GET /api/tasks: the Task.find of the caller's role
ListedTasks(caller) ==
  {t \in 1..Len(tasks) :
     /\ tasks[t].isActive
     /\ CASE users[caller].role = "masteradmin" -> TRUE
          [] users[caller].role = "admin" ->
               tasks[t].company = users[caller].company
          [] OTHER -> tasks[t].assignedTo = caller}

GetTasks(caller) ==
  /\ last' = IF ~Authenticated(caller)
             THEN Response("getTasks", 401, "Token is not valid", <<>>)
             ELSE Response("getTasks", 200, "",
                           IdList(Len(tasks), ListedTasks(caller)))
  /\ UNCHANGED <<users, projects, tasks, nextRequestId, suspended>>
  /\ UNCHANGED chatVars

\* GET /api/tasks/project/:projectId: { project, isActive: true } and, for
\* member roles, assignedTo: caller
ProjectTasks(caller, projectId) ==
  {t \in 1..Len(tasks) :
     /\ tasks[t].project = projectId
     /\ tasks[t].isActive
     /\ users[caller].role \in MemberRoles => tasks[t].assignedTo = caller}

GetProjectTasks(caller, projectId) ==
  /\ last' = IF ~Authenticated(caller)
             THEN Response("getProjectTasks", 401, "Token is not valid", <<>>)
             ELSE IF ~ProjectQueryMatches(caller, projectId)
             THEN Response("getProjectTasks", 404,
                           "Project not found or access denied", <<>>)
             ELSE Response("getProjectTasks", 200, "",
                           IdList(Len(tasks), ProjectTasks(caller, projectId)))
  /\ UNCHANGED <<users, projects, tasks, nextRequestId, suspended>>
  /\ UNCHANGED chatVars

\* variant: the query does not filter on isActive
DetailQueryMatches_Inactive(caller, taskId) ==
  /\ TaskExists(taskId)
  /\ tasks[taskId].company = users[caller].company

\* { _id, company, isActive: true } and, for member roles,
\* $or [{ assignedTo: caller }, { createdBy: caller }]
DetailQueryMatches(caller, taskId) ==
  /\ TaskExists(taskId)
  /\ tasks[taskId].company = users[caller].company
  /\ tasks[taskId].isActive
  /\ users[caller].role \in MemberRoles
       => \/ tasks[taskId].assignedTo = caller
          \/ tasks[taskId].createdBy = caller

DetailOutcome(caller, taskId, okMessage) ==
  IF ~Authenticated(caller) THEN <<401, "Token is not valid">>
  ELSE IF ~DetailQueryMatches(caller, taskId)
       THEN <<404, "Task not found or access denied">>
  ELSE <<200, okMessage>>

\* GET /api/tasks/:id
GetTask(caller, taskId) ==
  LET out == DetailOutcome(caller, taskId, "") IN
  /\ last' = Response("getTask", out[1], out[2],
                      IF out[1] = 200 THEN <<taskId>> ELSE <<>>)
  /\ UNCHANGED <<users, projects, tasks, nextRequestId, suspended>>
  /\ UNCHANGED chatVars

\* POST /api/tasks/:id/comments
AddComment(caller, taskId) ==
  LET out == DetailOutcome(caller, taskId, "Comment added successfully") IN
  /\ TaskExists(taskId) => Len(tasks[taskId].comments) < MaxComments
  /\ last' = Response("comment", out[1], out[2], <<>>)
  /\ IF out[1] = 200
     THEN tasks' = [tasks EXCEPT ![taskId].comments = Append(@, caller)]
     ELSE UNCHANGED tasks
  /\ UNCHANGED <<users, projects, nextRequestId, suspended>>
  /\ UNCHANGED chatVars

\* { _id, company, isActive: true } and, unless the caller is an admin,
\* createdBy: caller
UpdateQueryMatches(caller, taskId) ==
  /\ TaskExists(taskId)
  /\ tasks[taskId].company = users[caller].company
  /\ tasks[taskId].isActive
  /\ users[caller].role # "admin" => tasks[taskId].createdBy = caller

\* PUT /api/tasks/:id: title, description, priority and deadline only
UpdateTask(caller, taskId, title) ==
  LET out == IF ~Authenticated(caller) THEN <<401, "Token is not valid">>
             ELSE IF ~UpdateQueryMatches(caller, taskId)
                  THEN <<404, "Task not found or access denied">>
             ELSE <<200, "Task updated successfully">>
  IN
  /\ last' = Response("updateTask", out[1], out[2], <<>>)
  /\ IF out[1] = 200
     THEN tasks' = [tasks EXCEPT ![taskId].title = title]
     ELSE UNCHANGED tasks
  /\ UNCHANGED <<users, projects, nextRequestId, suspended>>
  /\ UNCHANGED chatVars

(* ---------------------------------------------------------------------- *)
(* routes/projects.js: DELETE /api/projects/:id                            *)
(* ---------------------------------------------------------------------- *)
\* After `project.isActive = false` the handler calls `projaect.save()`:
\* the identifier is not defined, the ReferenceError is caught and the
\* handler answers 500 before anything is written.
DeleteProjectOutcome(caller, projectId) ==
  IF ~Authenticated(caller) THEN <<401, "Token is not valid">>
  ELSE IF ~Authorized(caller, {"admin"})
       THEN <<403, "Access denied. Insufficient permissions.">>
  ELSE IF ~(projects[projectId].company = users[caller].company
            /\ projects[projectId].isActive)
       THEN <<404, "Project not found">>
  ELSE IF Len(projects[projectId].tasks) > 0
       THEN <<400, "Cannot delete project with active tasks. Please complete or reassign tasks first.">>
  ELSE <<500, "Server error while deleting project">>

DeleteProject(caller, projectId) ==
  LET out == DeleteProjectOutcome(caller, projectId) IN
  /\ last' = Response("deleteProject", out[1], out[2], <<>>)
  /\ UNCHANGED <<users, projects, tasks, nextRequestId, suspended>>
  /\ UNCHANGED chatVars

(* ---------------------------------------------------------------------- *)
(* Specification of the task routes: every operation on tasks and the      *)
(* project delete, one at a time, over a fixed set of users                *)
(* ---------------------------------------------------------------------- *)
TitleInputs == {"renamed"}

NextTasks ==
  \/ \E caller \in UserIds, p \in TaskProjects, u \in AssigneeInputs :
       CreateTask(caller, p, u)
  \/ \E caller \in UserIds, t \in TaskIds, u \in UserIds :
       DelegateTask(caller, t, u)
  \/ \E caller \in UserIds : GetDelegationRequests(caller)
  \/ \E caller \in UserIds, r \in RequestIds, a \in Actions :
       ResolveDelegationRequest(caller, r, a)
  \/ \E caller \in UserIds, t \in TaskIds, s \in StatusValues :
       UpdateTaskStatus(caller, t, s)
  \/ \E caller \in UserIds, t \in TaskIds : DeleteTask(caller, t)
  \/ \E caller \in UserIds : GetTasks(caller)
  \/ \E caller \in UserIds, p \in TaskProjects : GetProjectTasks(caller, p)
  \/ \E caller \in UserIds, t \in TaskIds : GetTask(caller, t)
  \/ \E caller \in UserIds, t \in TaskIds : AddComment(caller, t)
  \/ \E caller \in UserIds, t \in TaskIds, x \in TitleInputs :
       UpdateTask(caller, t, x)
  \/ \E caller \in UserIds, p \in TaskProjects : DeleteProject(caller, p)

SpecTasks == Init /\ [][NextTasks]_vars

(* ---------------------------------------------------------------------- *)
(* Specification with one resolve-request handler interleaved: the handler *)
(* reads the task and passes its checks, is suspended at                   *)
(* `await task.save()` while other handlers run, and then saves.           *)
(* ---------------------------------------------------------------------- *)
\* the document version (__v): every push to one of the task's arrays
\* increments it; a $set of a field of an array element does not
TaskVersion(task) == Len(task.delegationRequests) + Len(task.comments)

\* a resolve-request handler that has passed its checks: the caller, the
\* task document it read (its id and version), the position of the request
\* in it and the action
ResolveHandler(caller, taskId, index, action, version) ==
  [caller |-> caller, taskId |-> taskId, index |-> index,
   action |-> action, version |-> version]

\* the reads and checks of the handler, up to the await of task.save()
ResolveSuspend(caller, requestId, action) ==
  LET t == FindTaskOfRequest(caller, requestId) IN
  /\ suspended = NoHandler
  /\ ResolveOutcome(caller, requestId, action)[1] = 200
  /\ suspended' = ResolveHandler(caller, t,
                    RequestIndex(tasks[t].delegationRequests, requestId),
                    action, TaskVersion(tasks[t]))
  /\ UNCHANGED <<users, projects, tasks, nextRequestId, last>>
  /\ UNCHANGED chatVars

\* task.save() sends $set of `delegationRequests.<index>.status` (and of
\* assignedTo on accept) with the document version it read in the filter;
\* the update applies when the stored version is still that one
SaveApplies(handler) ==
  TaskVersion(tasks[handler.taskId]) = handler.version

ResolveResume ==
  /\ suspended # NoHandler
  /\ "action" \in DOMAIN suspended
  /\ IF SaveApplies(suspended)
     THEN /\ tasks' = [tasks EXCEPT ![suspended.taskId] =
                 ApplyResolution(tasks[suspended.taskId], suspended.index,
                                 suspended.caller, suspended.action)]
          /\ last' = Response("resolve", 200,
                        "Request " \o suspended.action \o "ed successfully",
                        <<>>)
     ELSE /\ UNCHANGED tasks
          /\ last' = Response("resolve", 500,
                        "Server error while processing delegation request",
                        <<>>)
  /\ suspended' = NoHandler
  /\ UNCHANGED <<users, projects, nextRequestId>>
  /\ UNCHANGED chatVars

NextResolveRace ==
  \/ \E caller \in UserIds, p \in TaskProjects, u \in AssigneeInputs :
       CreateTask(caller, p, u)
  \/ \E caller \in UserIds, t \in TaskIds, u \in UserIds :
       DelegateTask(caller, t, u)
  \/ \E caller \in UserIds, r \in RequestIds, a \in Actions :
       ResolveDelegationRequest(caller, r, a)
  \/ \E caller \in UserIds, r \in RequestIds, a \in Actions :
       ResolveSuspend(caller, r, a)
  \/ ResolveResume

SpecResolveRace == Init /\ [][NextResolveRace]_vars

(* ---------------------------------------------------------------------- *)
(* Specification with one create-request handler interleaved and the task  *)
(* detail update                                                           *)
(* ---------------------------------------------------------------------- *)
NextRaceUpdate ==
  \/ NextRace
  \/ \E caller \in UserIds, t \in TaskIds, x \in TitleInputs :
       UpdateTask(caller, t, x)

SpecRaceUpdate == Init /\ [][NextRaceUpdate]_vars

(* ---------------------------------------------------------------------- *)
(* Vocabulary of the properties                                            *)
(* ---------------------------------------------------------------------- *)
RequestsOf(t) == tasks[t].delegationRequests

Positions(t) == 1..Len(tasks[t].delegationRequests)

PendingFrom(t, u) ==
  {i \in Positions(t) : /\ RequestsOf(t)[i].status = "pending"
                        /\ RequestsOf(t)[i].fromUser = u}

Succeeded == last'.code = 200

\* the route that answered in this step
Answered(op) == last'.op = op

(* ---------------------------------------------------------------------- *)
(* C1: when handlers run one at a time, every task holds at most one       *)
(* pending delegation request per requesting user.                         *)
(* ---------------------------------------------------------------------- *)
C1_OnePendingPerUser ==
  \A t \in 1..Len(tasks) : \A u \in UserIds : Cardinality(PendingFrom(t, u)) <= 1

\* a user whose earlier request was resolved has a new pending one
C1_Witness ==
  \E t \in 1..Len(tasks) : \E i, j \in Positions(t) :
    /\ i < j
    /\ RequestsOf(t)[i].fromUser = RequestsOf(t)[j].fromUser
    /\ RequestsOf(t)[i].status # "pending"
    /\ RequestsOf(t)[j].status = "pending"

(* ---------------------------------------------------------------------- *)
(* C2: whenever an accept succeeds on a pending request R, afterwards the  *)
(* task's assignedTo is R.toUser and R.status is accepted, whoever calls.  *)
(* ---------------------------------------------------------------------- *)
C2_AcceptAssignsToUser ==
  [][Answered("resolve") =>
     \A caller \in UserIds : \A t \in 1..Len(tasks) : \A i \in Positions(t) :
       ( /\ ResolveDelegationRequest(caller, RequestsOf(t)[i].id, "accept")
         /\ RequestsOf(t)[i].status = "pending"
         /\ Succeeded )
       => /\ tasks'[t].assignedTo = RequestsOf(t)[i].toUser
          /\ tasks'[t].delegationRequests[i].status = "accepted"]_vars

(* ---------------------------------------------------------------------- *)
(* C3: a resolve call on request R by a user other than R.toUser is        *)
(* rejected and leaves R.status and the task's assignee unchanged.         *)
(* ---------------------------------------------------------------------- *)
C3_OnlyToUserResolves ==
  [][Answered("resolve") =>
     \A caller \in UserIds : \A t \in 1..Len(tasks) : \A i \in Positions(t) :
     \A action \in Actions :
       ( /\ ResolveDelegationRequest(caller, RequestsOf(t)[i].id, action)
         /\ caller # RequestsOf(t)[i].toUser )
       => /\ ~Succeeded
          /\ tasks'[t].delegationRequests[i].status = RequestsOf(t)[i].status
          /\ tasks'[t].assignedTo = tasks[t].assignedTo]_vars

PassesLookup(caller, t) ==
  /\ Authenticated(caller)
  /\ \E k \in Positions(t) : RequestsOf(t)[k].toUser = caller
  /\ tasks[t].company = users[caller].company
  /\ tasks[t].isActive

C5_RejectChangesOnlyStatus ==
  [][Answered("resolve") =>
     \A caller \in UserIds : \A t \in 1..Len(tasks) : \A i \in Positions(t) :
       ( /\ ResolveDelegationRequest(caller, RequestsOf(t)[i].id, "reject")
         /\ Succeeded )
       => /\ RequestsOf(t)[i].status = "pending"
          /\ tasks' = [tasks EXCEPT
                         ![t].delegationRequests[i].status = "rejected"]
          /\ UNCHANGED <<users, projects>>]_vars

\* a request has just been rejected on a task that holds another request
C5_Witness ==
  /\ last.op = "resolve"
  /\ last.code = 200
  /\ last.message = "Request rejected successfully"
  /\ \E t \in 1..Len(tasks) : \E i, j \in Positions(t) :
       i # j /\ RequestsOf(t)[j].status = "rejected"

(* ---------------------------------------------------------------------- *)
(* C6: a create-request call is rejected and changes nothing whenever the  *)
(* caller is not the task's assignee, or toUser is not a member of the     *)
(* task's project, or toUser is not an active user of the caller's company.*)
(* ---------------------------------------------------------------------- *)
C6_CreatePreconditions ==
  [][Answered("delegate") =>
     \A caller \in UserIds : \A t \in 1..Len(tasks) : \A u \in UserIds :
       ( /\ DelegateTask(caller, t, u)
         /\ \/ tasks[t].assignedTo # caller
            \/ u \notin projects[tasks[t].project].members
            \/ ~users[u].exists
            \/ ~users[u].isActive
            \/ users[u].company # users[caller].company )
       => /\ last'.code >= 400
          /\ UNCHANGED <<tasks, projects, users>>]_vars

\* the assignee has just been refused a delegation to a project member who
\* is deactivated or deleted
C6_Witness ==
  /\ last.op = "delegate"
  /\ last.code = 400
  /\ last.message = "Target user not found in your company"
  /\ \E u \in projects["p1"].members : ~users[u].isActive

(* ---------------------------------------------------------------------- *)
(* C7: a successful create-request appends exactly one request, pending,   *)
(* from the caller to the requested user, at the end of the task's list,   *)
(* and changes neither the assignee nor any existing request.              *)
(* ---------------------------------------------------------------------- *)
C7_CreateAppendsOnePending ==
  [][Answered("delegate") =>
     \A caller \in UserIds : \A t \in 1..Len(tasks) : \A u \in UserIds :
       (DelegateTask(caller, t, u) /\ Succeeded)
       => LET new == tasks'[t].delegationRequests IN
          /\ Len(new) = Len(RequestsOf(t)) + 1
          /\ SubSeq(new, 1, Len(RequestsOf(t))) = RequestsOf(t)
          /\ new[Len(new)].status = "pending"
          /\ new[Len(new)].fromUser = caller
          /\ new[Len(new)].toUser = u
          /\ \A k \in Positions(t) : RequestsOf(t)[k].id # new[Len(new)].id
          /\ tasks' = [tasks EXCEPT ![t].delegationRequests = new]
          /\ UNCHANGED <<users, projects>>]_vars

\* a request has just been appended behind an earlier one
C7_Witness ==
  /\ last.op = "delegate"
  /\ last.code = 200
  /\ \E t \in 1..Len(tasks) :
       /\ Len(RequestsOf(t)) >= 2
       /\ RequestsOf(t)[Len(RequestsOf(t))].status = "pending"

(* ---------------------------------------------------------------------- *)
(* C8: a create-request call by a caller who already has a pending request *)
(* on the task is refused with HTTP 400 and the message 'You already have  *)
(* a pending delegation request for this task', not with a server error,   *)
(* and the task is left unchanged.                                         *)
(* ---------------------------------------------------------------------- *)
C8_DuplicateIsClientError ==
  [][Answered("delegate") =>
     \A caller \in UserIds : \A t \in 1..Len(tasks) : \A u \in UserIds :
       ( /\ DelegateTask(caller, t, u)
         /\ Authenticated(caller)
         /\ tasks[t].assignedTo = caller
         /\ tasks[t].company = users[caller].company
         /\ tasks[t].isActive
         /\ u \in projects[tasks[t].project].members
         /\ ActiveUserInCompany(u, users[caller].company)
         /\ PendingFrom(t, caller) # {} )
       => /\ last'.code = 400
          /\ last'.message =
               "You already have a pending delegation request for this task"
          /\ tasks' = tasks]_vars

(* ---------------------------------------------------------------------- *)
(* C9: a successful accept changes only the task's assignedTo and the      *)
(* accepted request's status: every other request keeps its status (other  *)
(* pending requests stay pending and their toUser can still resolve them), *)
(* and the task's status, project, company and active flag are unchanged.  *)
(* ---------------------------------------------------------------------- *)
C9_AcceptFrame ==
  [][Answered("resolve") =>
     \A caller \in UserIds : \A t \in 1..Len(tasks) : \A i \in Positions(t) :
       ( /\ ResolveDelegationRequest(caller, RequestsOf(t)[i].id, "accept")
         /\ Succeeded )
       => /\ tasks' = [tasks EXCEPT
                         ![t].assignedTo = tasks'[t].assignedTo,
                         ![t].delegationRequests[i].status = "accepted"]
          /\ UNCHANGED <<users, projects>>
          /\ \A j \in Positions(t) \ {i} : \A action \in Actions :
               ( /\ RequestsOf(t)[j].status = "pending"
                 /\ Authenticated(RequestsOf(t)[j].toUser) )
               => ResolveOutcome(RequestsOf(t)[j].toUser,
                                 RequestsOf(t)[j].id, action)'[1] = 200]_vars

\* a request has just been accepted on a task whose status was updated and
\* that holds another request, which is still pending
C9_Witness ==
  /\ last.op = "resolve"
  /\ last.code = 200
  /\ last.message = "Request accepted successfully"
  /\ \E t \in 1..Len(tasks) : \E i, j \in Positions(t) :
       /\ i # j
       /\ RequestsOf(t)[i].status = "accepted"
       /\ RequestsOf(t)[j].status = "pending"
       /\ tasks[t].status = "completed"

(* ---------------------------------------------------------------------- *)
(* C10: the listing returns exactly the requests addressed to the caller   *)
(* that are pending and belong to an active task of the caller's company:  *)
(* none other is returned and none of them is omitted.                     *)
(* ---------------------------------------------------------------------- *)
PendingAddressedTo(caller) ==
  {RequestsOf(t)[i].id : <<t, i>> \in
     {x \in (1..Len(tasks)) \X RequestIds :
        /\ x[2] \in Positions(x[1])
        /\ RequestsOf(x[1])[x[2]].toUser = caller
        /\ RequestsOf(x[1])[x[2]].status = "pending"
        /\ tasks[x[1]].isActive
        /\ tasks[x[1]].company = users[caller].company}}

C10_ListIsExact ==
  [][Answered("list") =>
     \A caller \in UserIds :
       (GetDelegationRequests(caller) /\ Authenticated(caller))
       => /\ last'.code = 200
          /\ {last'.body[k] : k \in 1..Len(last'.body)}
               = PendingAddressedTo(caller)
          /\ Len(last'.body) = Cardinality(PendingAddressedTo(caller))]_vars

(* ---------------------------------------------------------------------- *)
(* Chat bridge: vocabulary                                                 *)
(* ---------------------------------------------------------------------- *)
\* the stored user is a member-role user that is neither listed in the
\* project's members nor in the project's team
NoProjectAccess(u, p) ==
  /\ users[u].role \in MemberRoles
  /\ u \notin projects[p].members
  /\ projects[p].team \notin users[u].teams

\* the two rooms of a project
RoomsOf(p) == {PrimaryRoom(p), projects[p].chatRoom}

\* connection d received, in the state after the step, an event of this name
Received(d, event) ==
  \E i \in 1..Len(emitted'.to[d]) : emitted'.to[d][i].event = event

\* the step sent exactly one error event to connection c
ErrorEventTo(c) ==
  /\ Len(emitted'.to[c]) = 1
  /\ emitted'.to[c][1].event = "error"

(* ---------------------------------------------------------------------- *)
(* C11: a join-project(P) from a member-role connection whose user is      *)
(* neither in P.members nor in P's team gets an error event, leaves the    *)
(* connection in neither of P's rooms, and GET /projects/P by that user is *)
(* denied.                                                                 *)
(* ---------------------------------------------------------------------- *)
C11_JoinDeniedWithoutAccess ==
  [][emitted'.op = "join-project" =>
     \A c \in ConnIds : \A p \in ProjectIds :
       ( /\ JoinProject(c, p)
         /\ NoProjectAccess(sockets[c].user.id, p) )
       => /\ ErrorEventTo(c)
          /\ sockets'[c].rooms \cap RoomsOf(p) = {}
          /\ GetProjectOutcome(sockets[c].user.id, p)[1] # 200]_vars

(* ---------------------------------------------------------------------- *)
(* C12: GET /chat/P by a member-role user who is neither in P.members nor  *)
(* in P's team is denied and returns no messages, for every project P of   *)
(* the user's company.                                                     *)
(* ---------------------------------------------------------------------- *)
C12_HistoryDeniedWithoutAccess ==
  [][last'.op = "getChat" =>
     \A caller \in UserIds : \A p \in ProjectIds :
       ( /\ GetChatMessages(caller, p)
         /\ NoProjectAccess(caller, p)
         /\ projects[p].company = users[caller].company )
       => /\ last'.code # 200
          /\ last'.body = <<>>]_vars

(* ---------------------------------------------------------------------- *)
(* C13: a join-project(P) or send-message(P) on an existing connection is  *)
(* admitted only if GET /projects/P by the same user would succeed at that *)
(* moment.                                                                 *)
(* ---------------------------------------------------------------------- *)
C13_RealtimeWithinRest ==
  [][emitted'.op \in {"join-project", "send-message"} =>
     \A c \in ConnIds :
       /\ \A p \in ProjectIds :
            ( /\ JoinProject(c, p)
              /\ JoinOutcome(c, p) = "joined" )
            => GetProjectOutcome(sockets[c].user.id, p)[1] = 200
       /\ \A data \in SendInputs :
            ( /\ SendMessage(c, data)
              /\ SendOutcome(c, data) = "sent" )
            => GetProjectOutcome(sockets[c].user.id, data.projectId)[1] = 200
  ]_vars

(* ---------------------------------------------------------------------- *)
(* C14: a send-message for P from a connection whose user fails the access *)
(* predicate gets an error event, persists no ChatMessage and emits no     *)
(* new-message event to any room.                                          *)
(* ---------------------------------------------------------------------- *)
C14_SendDeniedWithoutAccess ==
  [][emitted'.op = "send-message" =>
     \A c \in ConnIds : \A data \in SendInputs :
       ( /\ SendMessage(c, data)
         /\ NoProjectAccess(sockets[c].user.id, data.projectId) )
       => /\ ErrorEventTo(c)
          /\ messages' = messages
          /\ \A d \in ConnIds : ~Received(d, "new-message")]_vars

\* the message a send-message step has just persisted
Persisted == messages'[Len(messages')]

\* how many times connection d received the new-message of the step
\* through room r
Deliveries(d, r) ==
  Cardinality({i \in 1..Len(emitted'.to[d]) :
                 emitted'.to[d][i] = Event("new-message", r, Persisted)})

\* the payload kinds a stored message carries
PayloadKinds(m) ==
  {k \in {"content", "file", "code"} :
     \/ k = "content" /\ Truthy(m.content)
     \/ k = "file" /\ Truthy(m.file)
     \/ k = "code" /\ Truthy(m.code)}

(* ---------------------------------------------------------------------- *)
(* C15: every new-message event carries the ChatMessage persisted by the   *)
(* same send-message; when persistence fails (the store rejects a          *)
(* messageType outside its enumeration), nothing is stored, no new-message *)
(* is emitted and the sender gets an error event.                          *)
(* ---------------------------------------------------------------------- *)
C15_PersistBeforeFanOut ==
  [][emitted'.op = "send-message" =>
     \A c \in ConnIds : \A data \in SendInputs :
       SendMessage(c, data)
       => /\ \A d \in ConnIds : \A i \in 1..Len(emitted'.to[d]) :
               emitted'.to[d][i].event = "new-message"
               => /\ Len(messages') = Len(messages) + 1
                  /\ emitted'.to[d][i].payload = Persisted
                  /\ Persisted.project = data.projectId
                  /\ Persisted.sender = sockets[c].user.id
          /\ ( /\ SocketProjectFound(sockets[c].user, data.projectId)
               /\ data.messageType \notin {"", "text", "file", "code"} )
             => /\ messages' = messages
                /\ \A d \in ConnIds : ~Received(d, "new-message")
                /\ ErrorEventTo(c)]_vars

\* a message has been persisted and delivered to a connection other than
\* the sender's
C15_Witness ==
  /\ emitted.op = "send-message"
  /\ Len(messages) > 0
  /\ \E d \in ConnIds :
       /\ sockets[d].user.id # messages[Len(messages)].sender
       /\ Len(emitted.to[d]) > 0
       /\ emitted.to[d][1] =
            Event("new-message", PrimaryRoom(messages[Len(messages)].project),
                  messages[Len(messages)])

(* ---------------------------------------------------------------------- *)
(* C16: a send-message by an authorized sender with none of content, file  *)
(* and code populated is rejected: nothing persisted, no new-message, an   *)
(* error event to the sender.                                              *)
(* ---------------------------------------------------------------------- *)
C16_EmptyMessageRejected ==
  [][emitted'.op = "send-message" =>
     \A c \in ConnIds : \A data \in SendInputs :
       ( /\ SendMessage(c, data)
         /\ SocketProjectFound(sockets[c].user, data.projectId)
         /\ ~Truthy(data.content) /\ ~Truthy(data.file) /\ ~Truthy(data.code) )
       => /\ messages' = messages
          /\ \A d \in ConnIds : ~Received(d, "new-message")
          /\ ErrorEventTo(c)]_vars

(* ---------------------------------------------------------------------- *)
(* C17: every persisted ChatMessage carries exactly one of content, file   *)
(* and code.                                                               *)
(* ---------------------------------------------------------------------- *)
C17_ExactlyOnePayloadKind ==
  \A n \in 1..Len(messages) : Cardinality(PayloadKinds(messages[n])) = 1

(* ---------------------------------------------------------------------- *)
(* C18: a message sent to project P with P's named chat room as chatRoom   *)
(* reaches every connection once through each of P's rooms the connection  *)
(* is in, and through no room it is not in.                                *)
(* ---------------------------------------------------------------------- *)
C18_OncePerRoom ==
  [][emitted'.op = "send-message" =>
     \A c \in ConnIds : \A data \in SendInputs :
       ( /\ SendMessage(c, data)
         /\ data.chatRoom = projects[data.projectId].chatRoom
         /\ SendOutcome(c, data) = "sent" )
       => \A d \in ConnIds :
            /\ \A r \in RoomsOf(data.projectId) :
                 Deliveries(d, r) = IF r \in sockets[d].rooms THEN 1 ELSE 0
            /\ Len(emitted'.to[d]) =
                 Cardinality(RoomsOf(data.projectId) \cap sockets[d].rooms)]_vars

\* both connections are in both rooms of the project and each has received
\* the message once through the primary room and once through the chat room
C18_Witness ==
  /\ emitted.op = "send-message"
  /\ Len(messages) > 0
  /\ LET m == messages[Len(messages)] IN
     \A d \in ChatConns :
       /\ RoomsOf(m.project) \subseteq sockets[d].rooms
       /\ emitted.to[d] =
            << Event("new-message", PrimaryRoom(m.project), m),
               Event("new-message", projects[m.project].chatRoom, m) >>

(* ---------------------------------------------------------------------- *)
(* C19: whatever chatRoom the sender supplies, a connection that is in     *)
(* neither of P's two rooms receives no new-message for a message of P.    *)
(* ---------------------------------------------------------------------- *)
C19_NoDeliveryOutsideProject ==
  [][emitted'.op = "send-message" =>
     \A c \in ConnIds : \A data \in SendInputs :
       SendMessage(c, data)
       => \A d \in ConnIds :
            sockets[d].rooms \cap RoomsOf(data.projectId) = {}
            => ~Received(d, "new-message")]_vars

(* ---------------------------------------------------------------------- *)
(* C20: a typing / stop-typing for project P is relayed as user-typing /   *)
(* user-stop-typing to every connection in P's primary room except the     *)
(* sender, with the sender's taskId, and touches no ChatMessage.           *)
(* ---------------------------------------------------------------------- *)
C20_TypingRelay ==
  [][emitted'.op \in {"typing", "stop-typing"} =>
     \A c \in ConnIds : \A p \in ProjectIds : \A k \in TaskIdInputs :
       /\ Typing(c, p, k)
          => /\ emitted'.to =
                  [d \in ConnIds |->
                     IF d # c /\ PrimaryRoom(p) \in sockets[d].rooms
                     THEN << Event("user-typing", PrimaryRoom(p),
                                   [userId |-> sockets[c].user.id,
                                    taskId |-> k]) >>
                     ELSE <<>>]
             /\ messages' = messages
       /\ StopTyping(c, p, k)
          => /\ emitted'.to =
                  [d \in ConnIds |->
                     IF d # c /\ PrimaryRoom(p) \in sockets[d].rooms
                     THEN << Event("user-stop-typing", PrimaryRoom(p),
                                   [userId |-> sockets[c].user.id,
                                    taskId |-> k]) >>
                     ELSE <<>>]
             /\ messages' = messages]_vars

\* a typing event with a task discriminator has reached another connection
\* of the primary room while the sender, also in that room, received nothing,
\* and a message is stored
C20_Witness ==
  /\ emitted.op = "typing"
  /\ Len(messages) > 0
  /\ \E c \in ConnIds, d \in ConnIds, p \in ProjectIds :
       /\ c # d
       /\ PrimaryRoom(p) \in sockets[c].rooms
       /\ emitted.to[c] = <<>>
       /\ emitted.to[d] = << Event("user-typing", PrimaryRoom(p),
                                   [userId |-> sockets[c].user.id,
                                    taskId |-> "k1"]) >>

(* ---------------------------------------------------------------------- *)
(* Task routes: vocabulary                                                 *)
(* ---------------------------------------------------------------------- *)
\* the elements of a response body
BodyIds(body) == {body[i] : i \in 1..Len(body)}

\* the ids of the requests of task t
RequestIdsOf(t) == {RequestsOf(t)[i].id : i \in Positions(t)}

(* ---------------------------------------------------------------------- *)
(* C23: after a successful DELETE /tasks/:id the task record still exists  *)
(* with its active flag false, and from then on no listing, detail read,   *)
(* status update, comment, create-request, list-pending or resolve-request *)
(* returns or changes that task.                                           *)
(* ---------------------------------------------------------------------- *)
C23_DeletedTaskIsInert ==
  [][\A t \in 1..Len(tasks) :
       /\ (Answered("deleteTask") /\ Succeeded /\ tasks[t].isActive
             /\ ~tasks'[t].isActive)
          => tasks'[t] = [tasks[t] EXCEPT !.isActive = FALSE]
       /\ ~tasks[t].isActive
          => /\ Len(tasks') >= t
             /\ tasks'[t] = tasks[t]
             /\ last'.op \in {"getTasks", "getProjectTasks", "getTask"}
                  => t \notin BodyIds(last'.body)
             /\ last'.op = "list"
                  => BodyIds(last'.body) \cap RequestIdsOf(t) = {}
             /\ Answered("getTask")
                  => \A caller \in UserIds : GetTask(caller, t) => ~Succeeded
             /\ Answered("comment")
                  => \A caller \in UserIds : AddComment(caller, t) => ~Succeeded
             /\ Answered("status")
                  => \A caller \in UserIds : \A s \in StatusValues :
                       UpdateTaskStatus(caller, t, s) => ~Succeeded
             /\ Answered("delegate")
                  => \A caller, u \in UserIds :
                       DelegateTask(caller, t, u) => ~Succeeded
             /\ Answered("resolve")
                  => \A caller \in UserIds :
                     \A i \in Positions(t) : \A a \in Actions :
                       ResolveDelegationRequest(caller, RequestsOf(t)[i].id, a)
                       => ~Succeeded]_vars

\* a resolve-request on the pending request of a deleted task has just
\* been answered
C23_Witness ==
  /\ last.op = "resolve"
  /\ last.code = 404
  /\ \E t \in 1..Len(tasks) : \E i \in Positions(t) :
       /\ ~tasks[t].isActive
       /\ RequestsOf(t)[i].status = "pending"
       /\ Len(tasks[t].comments) > 0

(* ---------------------------------------------------------------------- *)
(* C24: when a create-request handler saves after another create-request   *)
(* of the same caller on the same task has been stored in between, the     *)
(* save succeeds and the task then holds two pending requests from that    *)
(* caller.                                                                 *)
(* ---------------------------------------------------------------------- *)
C24_InterleavedCreatesBothSucceed ==
  [][(Answered("delegate") /\ suspended # NoHandler /\ suspended' = NoHandler)
     => /\ Succeeded
        /\ tasks'[suspended.taskId].delegationRequests =
             Append(tasks[suspended.taskId].delegationRequests,
                    [id |-> nextRequestId, fromUser |-> suspended.caller,
                     toUser |-> suspended.toUserId, status |-> "pending"])
        /\ PendingFrom(suspended.taskId, suspended.caller) # {}
           => \E i, j \in 1..Len(tasks'[suspended.taskId].delegationRequests) :
                /\ i # j
                /\ \A k \in {i, j} :
                     /\ tasks'[suspended.taskId].delegationRequests[k].status
                          = "pending"
                     /\ tasks'[suspended.taskId].delegationRequests[k].fromUser
                          = suspended.caller]_vars

\* both handlers have answered 200 and the task holds two pending requests
\* from the same user to the same user
C24_Witness ==
  /\ last.op = "delegate"
  /\ last.code = 200
  /\ suspended = NoHandler
  /\ \E t \in 1..Len(tasks) : \E i, j \in Positions(t) :
       /\ i # j
       /\ RequestsOf(t)[i].status = "pending"
       /\ RequestsOf(t)[j].status = "pending"
       /\ RequestsOf(t)[i].fromUser = RequestsOf(t)[j].fromUser
       /\ RequestsOf(t)[i].toUser = RequestsOf(t)[j].toUser

(* ---------------------------------------------------------------------- *)
(* C25: under any interleaving of resolve-request handlers on one pending  *)
(* request, a resolve-request succeeds only on a request that is pending   *)
(* in the store, the status of a processed request never changes again,    *)
(* and the assignee changes only in a step that leaves the request         *)
(* accepted.                                                               *)
(* ---------------------------------------------------------------------- *)
C25_ResolvedExactlyOnce ==
  [][\A t \in 1..Len(tasks) : \A i \in Positions(t) :
       /\ RequestsOf(t)[i].status # "pending"
          => tasks'[t].delegationRequests[i].status = RequestsOf(t)[i].status
       /\ ( /\ Answered("resolve") /\ Succeeded
            /\ tasks'[t].delegationRequests[i] # RequestsOf(t)[i] )
          => RequestsOf(t)[i].status = "pending"]_vars

C27_ProjectSoftDelete ==
  [][Answered("deleteProject") =>
     \A caller \in UserIds : \A p \in ProjectIds :
       ( /\ DeleteProject(caller, p)
         /\ Authenticated(caller)
         /\ users[caller].role = "admin"
         /\ projects[p].company = users[caller].company
         /\ projects[p].isActive )
       => IF Len(projects[p].tasks) = 0
          THEN Succeeded /\ ~projects'[p].isActive
          ELSE /\ last'.code = 400
               /\ UNCHANGED <<projects, tasks, teams>>]_vars

(* ---------------------------------------------------------------------- *)
(* C28: in every reachable state each active task's assignee is a member   *)
(* of the task's project.                                                  *)
(* ---------------------------------------------------------------------- *)
C28_AssigneeIsProjectMember ==
  \A t \in 1..Len(tasks) :
    tasks[t].isActive
    => tasks[t].assignedTo \in projects[tasks[t].project].members

\* two requests of one task have been accepted, the later one while it was
\* stale, and the task's details and status were updated
C28_Witness ==
  \E t \in 1..Len(tasks) : \E i, j \in Positions(t) :
    /\ i < j
    /\ RequestsOf(t)[i].status = "accepted"
    /\ RequestsOf(t)[j].status = "accepted"
    /\ tasks[t].assignedTo = RequestsOf(t)[j].toUser
    /\ tasks[t].assignedTo # RequestsOf(t)[i].toUser
    /\ tasks[t].title = "renamed"
    /\ tasks[t].status = "completed"

(* ---------------------------------------------------------------------- *)
(* C29: a task's assignedTo changes only in a successful resolve-request   *)
(* with action accept; task creation sets it to the requested assignee.    *)
(* ---------------------------------------------------------------------- *)
C29_AssigneeChangesOnlyOnAccept ==
  [][/\ \A t \in 1..Len(tasks) :
          tasks'[t].assignedTo # tasks[t].assignedTo
          => /\ Answered("resolve")
             /\ Succeeded
             /\ \E caller \in UserIds : \E i \in Positions(t) :
                  /\ ResolveDelegationRequest(caller, RequestsOf(t)[i].id,
                                              "accept")
                  /\ tasks'[t].delegationRequests[i].status = "accepted"
     /\ Len(tasks') > Len(tasks)
          => \E caller \in UserIds, p \in ProjectIds, u \in AssigneeInputs :
               /\ CreateTask(caller, p, u)
               /\ tasks'[Len(tasks')].assignedTo = u]_vars

\* an accept has reassigned a task that was commented on, renamed and
\* updated before
C29_Witness ==
  /\ last.op = "resolve"
  /\ last.code = 200
  /\ \E t \in 1..Len(tasks) : \E i \in Positions(t) :
       /\ RequestsOf(t)[i].status = "accepted"
       /\ RequestsOf(t)[i].fromUser # tasks[t].assignedTo
       /\ tasks[t].assignedTo = RequestsOf(t)[i].toUser
       /\ Len(tasks[t].comments) > 0
       /\ tasks[t].title = "renamed"
       /\ tasks[t].status = "completed"

(* ---------------------------------------------------------------------- *)
(* Resource scoping: vocabulary                                            *)
(* ---------------------------------------------------------------------- *)
\* a well-formed id of no stored project
MissingProject == "p0"

\* a well-formed id of no stored task
MissingTask == Len(tasks) + 1

\* the handler emitted nothing but this error, to the calling socket
OnlyError(c, message) ==
  emitted'.to = OnlyTo(c, Event("error", NoRoom, message))

(* ---------------------------------------------------------------------- *)
(* C21: join-project(P) by the platform administrator, who has no company, *)
(* is admitted to P's rooms without error for every stored project P; a    *)
(* company administrator is admitted for every project of their company.   *)
(* ---------------------------------------------------------------------- *)
C21_AdministratorsJoin ==
  [][emitted'.op = "join-project" =>
     \A c \in ConnIds : \A p \in ProjectIds :
       ( /\ JoinProject(c, p)
         /\ \/ sockets[c].user.role = "masteradmin"
            \/ /\ sockets[c].user.role = "admin"
               /\ sockets[c].user.company = projects[p].company )
       => /\ ~Received(c, "error")
          /\ JoinedRooms(p) \subseteq sockets'[c].rooms]_vars

(* ---------------------------------------------------------------------- *)
(* C22: for a member-role caller the outcome of GET /projects/:id,         *)
(* join-project, send-message and POST /tasks/:id/delegate on a stored     *)
(* resource that the caller's filter excludes is the outcome of the same   *)
(* call with a well-formed id of no stored resource, and nothing is        *)
(* changed.                                                                *)
(* ---------------------------------------------------------------------- *)
C22_FilteredLooksMissing ==
  [][/\ Answered("getProject") =>
        \A caller \in UserIds : \A p \in ProjectIds :
          ( /\ users[caller].role \in MemberRoles
            /\ ~ProjectQueryMatches(caller, p)
            /\ GetProject(caller, p) )
          => <<last'.code, last'.message>>
               = GetProjectOutcome(caller, MissingProject)
     /\ emitted'.op = "join-project" =>
        \A c \in ConnIds : \A p \in ProjectIds :
          ( /\ sockets[c].user.role \in MemberRoles
            /\ ~SocketProjectFound(sockets[c].user, p)
            /\ JoinProject(c, p) )
          => /\ OnlyError(c, JoinOutcome(c, MissingProject))
             /\ sockets' = sockets
     /\ emitted'.op = "send-message" =>
        \A c \in ConnIds : \A data \in ScopeSendInputs :
          ( /\ data.projectId \in ProjectIds
            /\ sockets[c].user.role \in MemberRoles
            /\ ~SocketProjectFound(sockets[c].user, data.projectId)
            /\ SendMessage(c, data) )
          => /\ OnlyError(c, SendOutcome(c,
                          [data EXCEPT !.projectId = MissingProject]))
             /\ messages' = messages
     /\ Answered("delegate") =>
        \A caller \in UserIds : \A t \in TaskIds : \A u \in UserIds :
          ( /\ users[caller].role \in MemberRoles
            /\ TaskExists(t)
            /\ ~AssignedTaskFound(caller, t)
            /\ DelegateTask(caller, t, u) )
          => /\ <<last'.code, last'.message>>
                  = DelegateOutcome(caller, MissingTask, u)
             /\ tasks' = tasks]_vars

\* an employee who joined her own project and sent a message there has
\* just been refused a create-request while a task is stored
C22_Witness ==
  /\ last.op = "delegate"
  /\ last.code = 404
  /\ Len(tasks) > 0
  /\ PrimaryRoom("p1") \in sockets["s1"].rooms
  /\ PrimaryRoom("p2") \notin sockets["s1"].rooms
  /\ Len(messages) > 0

(* ---------------------------------------------------------------------- *)
(* C30: a connection that was never admitted to P's room by a successful   *)
(* join-project(P) causes no event to be delivered to the connections in   *)
(* P's primary room.                                                       *)
(* ---------------------------------------------------------------------- *)
C30_NoEventsWithoutJoin ==
  [][emitted'.op \in {"send-message", "typing", "stop-typing"} =>
     \A c \in ConnIds :
       ( \/ \E data \in SendInputs : SendMessage(c, data)
         \/ \E p \in ProjectIds, k \in TaskIdInputs : Typing(c, p, k)
         \/ \E p \in ProjectIds, k \in TaskIdInputs : StopTyping(c, p, k) )
       => \A p \in ProjectIds :
            PrimaryRoom(p) \notin sockets[c].rooms
            => \A d \in ConnIds : \A i \in 1..Len(emitted'.to[d]) :
                 emitted'.to[d][i].room # PrimaryRoom(p)]_vars

============================================================================
